---- MODULE Spec2Model ----
(***************************************************************************)
(* Model of the Lossless Semantic Tree builder, tools/lst/build_lst.py,    *)
(* and of its round-trip verifier, tools/lst/verify.py.                    *)
(*                                                                         *)
(* A source is a sequence of characters, each a one-character string.      *)
(* Offsets are 0-based as in the code: At(s, i) is s[i] of the code.       *)
(* A file on disk is a sequence of bytes; an ASCII byte is written as its  *)
(* character, the two bytes of U+00E9 are written "C3" and "A9".           *)
(* An Optional value is a sequence of length 0 (None) or 1.                *)
(***************************************************************************)
EXTENDS Integers, Sequences, FiniteSets, TLC

\* ------------------------------------------------------------------------
\* Bounds of the model
\* ------------------------------------------------------------------------

\* number of pieces of text a generated file is made of
MaxPieces == 3

\* the longest generated text the brace scanner is run on
MaxScanLen == 4

\* the most documents one run of the verifier is given
MaxDocs == 2

\* ------------------------------------------------------------------------
\* Characters and character classes of the regular expressions
\* ------------------------------------------------------------------------

None == <<>>

Some(x) == <<x>>

Min(S) == CHOOSE x \in S : \A y \in S : x <= y

Max(S) == CHOOSE x \in S : \A y \in S : y <= x

Letters ==
  {"a","b","c","d","e","f","g","h","i","j","k","l","m","n","o","p","q","r",
   "s","t","u","v","w","x","y","z","A","B","C","D","E","F","G","H","I","J",
   "K","L","M","N","O","P","Q","R","S","T","U","V","W","X","Y","Z","é"}

Digits == {"0","1","2","3","4","5","6","7","8","9"}

\* \s of the re module
IsSpace(c) == c \in {" ", "\n", "\t", "\r", "\f"}

\* \w of the re module (str patterns: letters of any script, digits, _)
IsWord(c) == c \in Letters \cup Digits \cup {"_"}

\* [A-Za-z_]
IsIdentStart(c) == c \in (Letters \ {"é"}) \cup {"_"}

\* [\w:]
IsNameChar(c) == IsWord(c) \/ c = ":"

\* [\w:<>\s\*&]
IsTypeChar(c) == IsWord(c) \/ IsSpace(c) \/ c \in {":", "<", ">", "*", "&"}

\* [\w:<>\s=,]
IsUsingChar(c) == IsWord(c) \/ IsSpace(c) \/ c \in {":", "<", ">", "=", ","}

\* [\w:<>]
IsArrowChar(c) == IsWord(c) \/ c \in {":", "<", ">"}

\* ------------------------------------------------------------------------
\* Strings: the str operations the code uses
\* ------------------------------------------------------------------------

\* src[i]; an index outside the string raises IndexError
At(s, i) == IF 0 <= i /\ i < Len(s) THEN s[i + 1] ELSE "IndexError"

\* src[a:b], for 0 <= a: the end is clamped to the length
Slice(s, a, b) == SubSeq(s, a + 1, IF b < Len(s) THEN b ELSE Len(s))

\* src.find(c, from) for a single character c; -1 when absent
Find(s, c, from) ==
  LET hits == {i \in from .. Len(s) - 1 : s[i + 1] = c}
  IN  IF hits = {} THEN -1 ELSE Min(hits)

\* src.find(c1 c2, from) for a two-character string; -1 when absent
Find2(s, c1, c2, from) ==
  LET hits == {i \in from .. Len(s) - 2 : s[i + 1] = c1 /\ s[i + 2] = c2}
  IN  IF hits = {} THEN -1 ELSE Min(hits)

\* str.startswith at an offset
StartsWithAt(s, i, kw) ==
  /\ i >= 0
  /\ i + Len(kw) <= Len(s)
  /\ \A k \in 1 .. Len(kw) : s[i + k] = kw[k]

\* the offset after the longest run of characters of a class that starts at i
RECURSIVE SkipSpace(_, _)
SkipSpace(s, i) ==
  IF i < Len(s) /\ IsSpace(s[i + 1]) THEN SkipSpace(s, i + 1) ELSE i

RECURSIVE SkipName(_, _)
SkipName(s, i) ==
  IF i < Len(s) /\ IsNameChar(s[i + 1]) THEN SkipName(s, i + 1) ELSE i

RECURSIVE SkipUsing(_, _)
SkipUsing(s, i) ==
  IF i < Len(s) /\ IsUsingChar(s[i + 1]) THEN SkipUsing(s, i + 1) ELSE i

RECURSIVE SkipArrow(_, _)
SkipArrow(s, i) ==
  IF i < Len(s) /\ IsArrowChar(s[i + 1]) THEN SkipArrow(s, i + 1) ELSE i

\* str.strip()
RECURSIVE StripRight(_)
StripRight(s) ==
  IF Len(s) > 0 /\ IsSpace(s[Len(s)]) THEN StripRight(SubSeq(s, 1, Len(s) - 1))
  ELSE s

Strip(s) == StripRight(SubSeq(s, SkipSpace(s, 0) + 1, Len(s)))

RECURSIVE Concat(_)
Concat(ss) == IF ss = <<>> THEN <<>> ELSE Head(ss) \o Concat(Tail(ss))

\* list.sort(key=...): stable and ascending. keys[k] is the key of the k-th
\* element; the result is the order in which the positions 1..Len(keys) come
\* out of the sort
RECURSIVE InsertByKey(_, _, _)
InsertByKey(sorted, k, keys) ==
  IF sorted = <<>> THEN <<k>>
  ELSE IF keys[sorted[Len(sorted)]] <= keys[k] THEN Append(sorted, k)
  ELSE Append(InsertByKey(SubSeq(sorted, 1, Len(sorted) - 1), k, keys),
              sorted[Len(sorted)])

RECURSIVE SortOrderUpTo(_, _)
SortOrderUpTo(keys, n) ==
  IF n = 0 THEN <<>>
  ELSE InsertByKey(SortOrderUpTo(keys, n - 1), n, keys)

\* SortOrder of a sort that was left out
SortOrderUnsorted(keys) == [k \in 1 .. Len(keys) |-> k]

SortOrder(keys) == SortOrderUpTo(keys, Len(keys))

\* ------------------------------------------------------------------------
\* Reading the file: open(path, 'r', encoding='utf-8').read()
\* ------------------------------------------------------------------------

\* UTF-8 decoding followed by universal-newline translation: CR LF and a
\* lone CR both become LF
RECURSIVE ReadText(_)
ReadText(bytes) ==
  IF bytes = <<>> THEN <<>>
  ELSE IF Len(bytes) >= 2 /\ bytes[1] = "C3" /\ bytes[2] = "A9"
       THEN <<"é">> \o ReadText(SubSeq(bytes, 3, Len(bytes)))
  ELSE IF Len(bytes) >= 2 /\ bytes[1] = "\r" /\ bytes[2] = "\n"
       THEN <<"\n">> \o ReadText(SubSeq(bytes, 3, Len(bytes)))
  ELSE IF bytes[1] = "\r"
       THEN <<"\n">> \o ReadText(Tail(bytes))
  ELSE <<bytes[1]>> \o ReadText(Tail(bytes))

\* src.encode('utf-8')
RECURSIVE EncodeUtf8(_)
EncodeUtf8(s) ==
  IF s = <<>> THEN <<>>
  ELSE IF s[1] = "é" THEN <<"C3", "A9">> \o EncodeUtf8(Tail(s))
  ELSE <<s[1]>> \o EncodeUtf8(Tail(s))

\* hashlib.sha256(data).hexdigest(): SHA-256 is taken to be collision-free,
\* so a digest is identified with the data it was computed from
Sha256(data) == [sha256 |-> data]

\* ------------------------------------------------------------------------
\* Line index
\* ------------------------------------------------------------------------

RECURSIVE LineStartsFrom(_, _)
LineStartsFrom(s, i) ==
  IF i >= Len(s) THEN <<>>
  ELSE IF s[i + 1] = "\n" THEN <<i + 1>> \o LineStartsFrom(s, i + 1)
  ELSE LineStartsFrom(s, i + 1)

compute_lines_index(s) == <<0>> \o LineStartsFrom(s, 0)

\* BinarySearch that compares with < where the code compares with <=
RECURSIVE BinarySearchStrict(_, _, _, _)
BinarySearchStrict(lo, hi, pos, line_index) ==
  IF lo <= hi
  THEN LET mid == (lo + hi) \div 2
       IN  IF line_index[mid + 1] < pos
           THEN BinarySearchStrict(mid + 1, hi, pos, line_index)
           ELSE BinarySearchStrict(lo, mid - 1, pos, line_index)
  ELSE hi + 1

RECURSIVE BinarySearch(_, _, _, _)
BinarySearch(lo, hi, pos, line_index) ==
  IF lo <= hi
  THEN LET mid == (lo + hi) \div 2
       IN  IF line_index[mid + 1] <= pos
           THEN BinarySearch(mid + 1, hi, pos, line_index)
           ELSE BinarySearch(lo, mid - 1, pos, line_index)
  ELSE hi + 1

byte_to_line(pos, line_index) ==
  BinarySearch(0, Len(line_index) - 1, pos, line_index)

make_span(start, end, line_index) ==
  [start_byte |-> start, end_byte |-> end,
   start_line |-> byte_to_line(start, line_index),
   end_line |-> byte_to_line(end, line_index)]

\* ------------------------------------------------------------------------
\* Brace matching
\* ------------------------------------------------------------------------

NotFound == -1

Raised == -2

\* SkipLiteral with a loop that does not test i < n: src[i] raises at the end
\* of an unterminated literal
RECURSIVE SkipLiteralUnchecked(_, _, _)
SkipLiteralUnchecked(src, i, q) ==
  IF At(src, i) = "IndexError" THEN Raised
  ELSE IF At(src, i) = "\\" THEN SkipLiteralUnchecked(src, i + 2, q)
  ELSE IF At(src, i) = q THEN i + 1
  ELSE SkipLiteralUnchecked(src, i + 1, q)

\* SkipLiteral that steps over the opening quote only
SkipLiteralNone(src, i, q) == i

\* SkipLiteral that gives the backslash no meaning
RECURSIVE SkipLiteralNoEscape(_, _, _)
SkipLiteralNoEscape(src, i, q) ==
  IF i < Len(src)
  THEN IF At(src, i) = q THEN i + 1 ELSE SkipLiteralNoEscape(src, i + 1, q)
  ELSE i

\* the inner loop of find_matching_brace: the offset after the literal that
\* was opened with the quote q, the cursor i being behind the opening quote;
\* an exception raised here leaves find_matching_brace
RECURSIVE SkipLiteral(_, _, _)
SkipLiteral(src, i, q) ==
  IF i < Len(src)
  THEN IF At(src, i) = "\\" THEN SkipLiteral(src, i + 2, q)
       ELSE IF At(src, i) = q THEN i + 1
       ELSE SkipLiteral(src, i + 1, q)
  ELSE i

\* ScanFrom that returns at the first closing brace, whatever the depth
RECURSIVE ScanFromFirstClose(_, _, _)
ScanFromFirstClose(src, i, depth) ==
  LET n == Len(src)
      ch == At(src, i)
  IN  IF ~(i < n) THEN NotFound
      ELSE IF ch = "\"" \/ ch = "'"
           THEN ScanFromFirstClose(src, SkipLiteral(src, i + 1, ch), depth)
      ELSE IF ch = "/" /\ i + 1 < n /\ At(src, i + 1) = "/"
           THEN LET j == Find(src, "\n", i + 2)
                IN  ScanFromFirstClose(src, IF j = -1 THEN n ELSE j + 1, depth)
      ELSE IF ch = "/" /\ i + 1 < n /\ At(src, i + 1) = "*"
           THEN LET j == Find2(src, "*", "/", i + 2)
                IN  ScanFromFirstClose(src, IF j = -1 THEN n ELSE j + 2, depth)
      ELSE IF ch = "}" THEN i
      ELSE ScanFromFirstClose(src, i + 1, depth)

\* the outer loop of find_matching_brace, at cursor i with the given depth
RECURSIVE ScanFrom(_, _, _)
ScanFrom(src, i, depth) ==
  LET n == Len(src)
      ch == At(src, i)
  IN  IF ~(i < n) THEN NotFound
      ELSE IF ch = "\"" \/ ch = "'"
           THEN LET j == SkipLiteral(src, i + 1, ch)
                IN  IF j = Raised THEN Raised ELSE ScanFrom(src, j, depth)
      ELSE IF ch = "/" /\ i + 1 < n /\ At(src, i + 1) = "/"
           THEN LET j == Find(src, "\n", i + 2)
                IN  ScanFrom(src, IF j = -1 THEN n ELSE j + 1, depth)
      ELSE IF ch = "/" /\ i + 1 < n /\ At(src, i + 1) = "*"
           THEN LET j == Find2(src, "*", "/", i + 2)
                IN  ScanFrom(src, IF j = -1 THEN n ELSE j + 2, depth)
      ELSE IF ch = "{" THEN ScanFrom(src, i + 1, depth + 1)
      ELSE IF ch = "}"
           THEN IF depth - 1 = 0 THEN i ELSE ScanFrom(src, i + 1, depth - 1)
      ELSE ScanFrom(src, i + 1, depth)

\* ScanFrom without the two comment branches
RECURSIVE ScanFromNoComments(_, _, _)
ScanFromNoComments(src, i, depth) ==
  LET ch == At(src, i)
  IN  IF ~(i < Len(src)) THEN NotFound
      ELSE IF ch = "\"" \/ ch = "'"
           THEN ScanFromNoComments(src, SkipLiteral(src, i + 1, ch), depth)
      ELSE IF ch = "{" THEN ScanFromNoComments(src, i + 1, depth + 1)
      ELSE IF ch = "}"
           THEN IF depth - 1 = 0 THEN i
                ELSE ScanFromNoComments(src, i + 1, depth - 1)
      ELSE ScanFromNoComments(src, i + 1, depth)

find_matching_brace_no_comments(src, open_pos) ==
  ScanFromNoComments(src, open_pos, 0)

\* the offset of the matching closing brace, or NotFound (None of the code)
find_matching_brace(src, open_pos) == ScanFrom(src, open_pos, 0)

\* ------------------------------------------------------------------------
\* The regular expressions.  A match is a record: start and end are m.start()
\* and m.end(), name is the captured name, kw the captured keyword.
\* XxxRest(src, c) matches the expression behind its (^|\n) group at offset c
\* and yields None or Some(match without its start).
\* ------------------------------------------------------------------------

kwNamespace == <<"n","a","m","e","s","p","a","c","e">>

kwClass == <<"c","l","a","s","s">>

kwStruct == <<"s","t","r","u","c","t">>

kwInclude == <<"i","n","c","l","u","d","e">>

kwUsing == <<"u","s","i","n","g">>

kwConst == <<"c","o","n","s","t">>

kwArrow == <<"-",">">>

kwHashInclude == <<"#","i","n","c","l","u","d","e">>

\* the offset of the end of the line that holds offset i
LineEnd(src, i) ==
  LET j == Find(src, "\n", i) IN IF j = -1 THEN Len(src) ELSE j

\* \s*namespace\s+([A-Za-z_][\w:]*)\s*\{
NamespaceRest(src, c) ==
  LET p1 == SkipSpace(src, c)
      p2 == p1 + Len(kwNamespace)
      p3 == SkipSpace(src, p2)
      p4 == SkipName(src, p3)
      p5 == SkipSpace(src, p4)
  IN  IF /\ StartsWithAt(src, p1, kwNamespace)
         /\ p3 > p2
         /\ IsIdentStart(At(src, p3))
         /\ At(src, p5) = "{"
      THEN Some([end |-> p5 + 1, name |-> Slice(src, p3, p4), kw |-> "namespace"])
      ELSE None

\* \s*(class|struct)\s+([A-Za-z_][\w:]*)[^;{]*\{
ClassRest(src, c) ==
  LET p1 == SkipSpace(src, c)
      isClass == StartsWithAt(src, p1, kwClass)
      isStruct == StartsWithAt(src, p1, kwStruct)
      p2 == p1 + (IF isClass THEN Len(kwClass) ELSE Len(kwStruct))
      p3 == SkipSpace(src, p2)
      p4 == SkipName(src, p3)
      b == Find(src, "{", p4)
      semi == Find(src, ";", p4)
  IN  IF /\ isClass \/ isStruct
         /\ p3 > p2
         /\ IsIdentStart(At(src, p3))
         /\ b # -1
         /\ semi = -1 \/ semi > b
      THEN Some([end |-> b + 1, name |-> Slice(src, p3, p4),
                 kw |-> IF isClass THEN "class" ELSE "struct"])
      ELSE None

\* \s*#\s*include\s+([^\n]+)
IncludeRest(src, c) ==
  LET p1 == SkipSpace(src, c)
      p2 == SkipSpace(src, p1 + 1)
      p3 == p2 + Len(kwInclude)
      p4 == SkipSpace(src, p3)
      \* \s+ gives back characters until one that is not a newline follows
      stops == {p \in p3 + 1 .. p4 : p < Len(src) /\ At(src, p) # "\n"}
  IN  IF /\ At(src, p1) = "#"
         /\ StartsWithAt(src, p2, kwInclude)
         /\ stops # {}
      THEN Some([end |-> LineEnd(src, Max(stops)), name |-> <<>>, kw |-> "include"])
      ELSE None

\* \s*using\s+[\w:<>\s=,]+;
UsingRest(src, c) ==
  LET p1 == SkipSpace(src, c)
      p2 == p1 + Len(kwUsing)
      p3 == SkipUsing(src, p2)
  IN  IF /\ StartsWithAt(src, p1, kwUsing)
         /\ IsSpace(At(src, p2))
         /\ p3 >= p2 + 2
         /\ At(src, p3) = ";"
      THEN Some([end |-> p3 + 1, name |-> <<>>, kw |-> "using"])
      ELSE None

\* \s*#.*
MacroRest(src, c) ==
  LET p1 == SkipSpace(src, c)
  IN  IF At(src, p1) = "#"
      THEN Some([end |-> LineEnd(src, p1 + 1), name |-> <<>>, kw |-> "macro"])
      ELSE None

\* \s*(?:const\s*)?(?:->\s*[\w:<>]+\s*)?  between offset t and the brace at b
FuncTail(src, t, b) ==
  LET t1 == SkipSpace(src, t)
      t2 == IF StartsWithAt(src, t1, kwConst)
            THEN SkipSpace(src, t1 + Len(kwConst)) ELSE t1
      a1 == SkipSpace(src, t2 + Len(kwArrow))
      a2 == SkipArrow(src, a1)
  IN  IF StartsWithAt(src, t2, kwArrow)
      THEN a2 > a1 /\ SkipSpace(src, a2) = b
      ELSE t2 = b

\* \s*(?:static\s+)?(?:inline\s+)?(?:const\s+)?(?:Json::)?
\*   [A-Za-z_][\w:<>\s\*&]*\s+([A-Za-z_][\w:]*)\s*\(([^;{}]*)\)\s*
\*   (?:const\s*)?(?:->\s*[\w:<>]+\s*)?\{
\* The optional prefixes are words of the return-type class, so they add no
\* match; the name is the word in front of the first parenthesis, the
\* parameter list ends at the last parenthesis in front of the first brace.
FuncRest(src, c) ==
  LET p0 == SkipSpace(src, c)
      q == Find(src, "(", p0)
      ne == Min({i \in p0 .. q : \A k \in i .. q - 1 : IsSpace(At(src, k))})
      ns == Min({i \in p0 .. ne : \A k \in i .. ne - 1 : ~IsSpace(At(src, k))})
      b == Find(src, "{", q + 1)
      closers == {i \in q + 1 .. b - 1 : At(src, i) = ")"}
      r == Max(closers)
  IN  IF /\ IsIdentStart(At(src, p0))
         /\ q # -1
         /\ \A i \in p0 .. q - 1 : IsTypeChar(At(src, i))
         /\ p0 < ns /\ ns < ne
         /\ IsIdentStart(At(src, ns))
         /\ \A i \in ns .. ne - 1 : IsNameChar(At(src, i))
         /\ b # -1
         /\ closers # {}
         /\ \A i \in q + 1 .. r - 1 : At(src, i) \notin {";", "}"}
         /\ FuncTail(src, r + 1, b)
      THEN Some([end |-> b + 1, name |-> Slice(src, ns, ne), kw |-> "function"])
      ELSE None

\* the match the expression (^|\n)Rest finds when tried at offset a: ^ first
\* (the start of the text, and with re.M the start of a line), then \n;
\* rest[c] is what Rest matches at offset c
MatchAt(src, a, multiline, rest) ==
  LET atStart == a = 0 \/ (multiline /\ a > 0 /\ At(src, a - 1) = "\n")
      viaStart == IF atStart THEN rest[a] ELSE None
      viaNewline == IF At(src, a) = "\n" THEN rest[a + 1] ELSE None
      found == IF viaStart # None THEN viaStart ELSE viaNewline
  IN  IF found = None THEN None
      ELSE Some([start |-> a, end |-> found[1].end, name |-> found[1].name,
                 kw |-> found[1].kw])

\* finditer over the matches cand[a] that an attempt at offset a finds: the
\* leftmost match at or after pos, then the search goes on at its end
RECURSIVE PickMatches(_, _, _)
PickMatches(cand, pos, n) ==
  IF pos > n THEN <<>>
  ELSE IF cand[pos] = None THEN PickMatches(cand, pos + 1, n)
  ELSE <<cand[pos][1]>> \o
       PickMatches(cand, IF cand[pos][1].end > pos THEN cand[pos][1].end
                         ELSE pos + 1, n)

finditer(src, multiline, rest) ==
  PickMatches([a \in 0 .. Len(src) |-> MatchAt(src, a, multiline, rest)],
              0, Len(src))

\* the matches of the six expressions in src
IncludeMatches(src) ==
  finditer(src, FALSE, [c \in 0 .. Len(src) + 1 |-> IncludeRest(src, c)])

NamespaceMatches(src) ==
  finditer(src, TRUE, [c \in 0 .. Len(src) + 1 |-> NamespaceRest(src, c)])

ClassMatches(src) ==
  finditer(src, TRUE, [c \in 0 .. Len(src) + 1 |-> ClassRest(src, c)])

FuncMatches(src) ==
  finditer(src, TRUE, [c \in 0 .. Len(src) + 1 |-> FuncRest(src, c)])

UsingMatches(src) ==
  finditer(src, TRUE, [c \in 0 .. Len(src) + 1 |-> UsingRest(src, c)])

MacroMatches(src) ==
  finditer(src, FALSE, [c \in 0 .. Len(src) + 1 |-> MacroRest(src, c)])

\* ------------------------------------------------------------------------
\* Construct extractor
\* ------------------------------------------------------------------------

\* Node(kind, name, span, header_span, body_span, header, text, children);
\* children holds positions in the flat node list
Node(kind, name, span, header_span, body_span, header, text, children) ==
  [kind |-> kind, name |-> name, span |-> span, header_span |-> header_span,
   body_span |-> body_span, header |-> header, text |-> text,
   children |-> children]

\* s = m.start(0) if m.start(0) == 0 else m.start(0)+1
NodeStart(m) == IF m.start = 0 THEN m.start ELSE m.start + 1

slice_node(src, m, kind, line_index) ==
  LET start == NodeStart(m)
      found == Find(src, "{", m.end - 1)
      header_end == IF found = -1 THEN m.end ELSE found
      body_start == header_end
      matched == find_matching_brace(src, body_start)
      body_end == IF matched = NotFound THEN m.end ELSE matched
  IN  Node(kind, Some(m.name),
           make_span(start, body_end + 1, line_index),
           Some(make_span(start, header_end, line_index)),
           Some(make_span(body_start, body_end + 1, line_index)),
           Some(Slice(src, start, header_end)),
           Slice(src, start, body_end + 1),
           <<>>)

\* whether slice_node raises on the match m
SliceRaises(src, m) ==
  LET found == Find(src, "{", m.end - 1)
  IN  find_matching_brace(src, IF found = -1 THEN m.end ELSE found) = Raised

IncludeNode(src, m, line_index) ==
  LET s == NodeStart(m)
      e == LineEnd(src, m.end)
  IN  Node("include", Some(Strip(Slice(src, m.start, m.end))),
           make_span(s, e, line_index), None, None, None, Slice(src, s, e), <<>>)

UsingNode(src, m, line_index) ==
  LET s == NodeStart(m)
      e == m.end
  IN  Node("using", None, make_span(s, e, line_index), None, None, None,
           Slice(src, s, e), <<>>)

MacroNode(src, m, line_index) ==
  LET s == NodeStart(m)
      e == LineEnd(src, m.end)
  IN  Node("macro", None, make_span(s, e, line_index), None, None, None,
           Slice(src, s, e), <<>>)

\* text.strip().startswith('#include')
IsIncludeText(text) == StartsWithAt(Strip(text), 0, kwHashInclude)

\* the node lists of the six passes, in the order of the code
IncludePass(src, line_index) ==
  LET ms == IncludeMatches(src)
  IN  [k \in 1 .. Len(ms) |-> IncludeNode(src, ms[k], line_index)]

NamespacePass(src, line_index) ==
  LET ms == NamespaceMatches(src)
  IN  [k \in 1 .. Len(ms) |-> slice_node(src, ms[k], "namespace", line_index)]

ClassPass(src, line_index) ==
  LET ms == ClassMatches(src)
  IN  [k \in 1 .. Len(ms) |-> slice_node(src, ms[k], ms[k].kw, line_index)]

FunctionPass(src, line_index) ==
  LET ms == FuncMatches(src)
  IN  [k \in 1 .. Len(ms) |-> slice_node(src, ms[k], "function", line_index)]

UsingPass(src, line_index) ==
  LET ms == UsingMatches(src)
  IN  [k \in 1 .. Len(ms) |-> UsingNode(src, ms[k], line_index)]

IsNotInclude(n) == ~IsIncludeText(n.text)

MacroPass(src, line_index) ==
  LET ms == MacroMatches(src)
      all == [k \in 1 .. Len(ms) |-> MacroNode(src, ms[k], line_index)]
  IN  SelectSeq(all, IsNotInclude)

\* nodes.sort(key=lambda n: n.span.start_byte)
SortByStart(nodes) ==
  LET order == SortOrder([k \in 1 .. Len(nodes) |-> nodes[k].span.start_byte])
  IN  [k \in 1 .. Len(nodes) |-> nodes[order[k]]]

collect_toplevel(src, line_index) ==
  SortByStart(IncludePass(src, line_index) \o NamespacePass(src, line_index)
              \o ClassPass(src, line_index) \o FunctionPass(src, line_index)
              \o UsingPass(src, line_index) \o MacroPass(src, line_index))

\* whether collect_toplevel raises
CollectRaises(src) ==
  LET ms == NamespaceMatches(src) \o ClassMatches(src)
            \o FuncMatches(src)
  IN  \E k \in 1 .. Len(ms) : SliceRaises(src, ms[k])

\* ------------------------------------------------------------------------
\* Nester
\* ------------------------------------------------------------------------

ContainerKinds == {"namespace", "class", "struct", "function"}

Width(span) == span.end_byte - span.start_byte

\* idx_containers, sorted by body size ascending
Containers(nodes) ==
  LET idx == SelectSeq([k \in 1 .. Len(nodes) |-> k],
                       LAMBDA i : nodes[i].body_span # None
                                  /\ nodes[i].kind \in ContainerKinds)
      order == SortOrder([k \in 1 .. Len(idx) |-> Width(nodes[idx[k]].body_span[1])])
  IN  [k \in 1 .. Len(idx) |-> idx[order[k]]]

\* Contains without the test of the start
ContainsEndOnly(body, span) == span.end_byte <= body.end_byte

\* bs <= ns and ne <= be
Contains(body, span) ==
  body.start_byte <= span.start_byte /\ span.end_byte <= body.end_byte

\* BestFrom with the comparison of the widths turned around
RECURSIVE BestFromWidest(_, _, _, _, _)
BestFromWidest(nodes, i, cs, k, best) ==
  IF k > Len(cs) THEN best
  ELSE LET ci == cs[k]
           body == nodes[ci].body_span[1]
       IN  IF ci = i THEN BestFromWidest(nodes, i, cs, k + 1, best)
           ELSE IF Contains(body, nodes[i].span)
                THEN IF best = 0 THEN BestFromWidest(nodes, i, cs, k + 1, ci)
                     ELSE IF Width(nodes[best].body_span[1]) < Width(body)
                          THEN BestFromWidest(nodes, i, cs, k + 1, ci)
                          ELSE BestFromWidest(nodes, i, cs, k + 1, best)
                ELSE BestFromWidest(nodes, i, cs, k + 1, best)

\* the inner loop over idx_containers for node i, from position k on, with
\* the best container found so far (0 is None)
RECURSIVE BestFrom(_, _, _, _, _)
BestFrom(nodes, i, cs, k, best) ==
  IF k > Len(cs) THEN best
  ELSE LET ci == cs[k]
           body == nodes[ci].body_span[1]
       IN  IF ci = i THEN BestFrom(nodes, i, cs, k + 1, best)
           ELSE IF Contains(body, nodes[i].span)
                THEN IF best = 0 THEN BestFrom(nodes, i, cs, k + 1, ci)
                     ELSE IF Width(nodes[best].body_span[1]) > Width(body)
                          THEN BestFrom(nodes, i, cs, k + 1, ci)
                          ELSE BestFrom(nodes, i, cs, k + 1, best)
                ELSE BestFrom(nodes, i, cs, k + 1, best)

\* parent_idx (0 is None)
ParentIdx(nodes) ==
  LET cs == Containers(nodes)
  IN  [i \in 1 .. Len(nodes) |-> BestFrom(nodes, i, cs, 1, 0)]

\* the positions the recursion of sort_rec visits from the roots
RECURSIVE ReachedFrom(_, _, _)
ReachedFrom(parent, reached, fuel) ==
  IF fuel = 0 THEN reached
  ELSE ReachedFrom(parent,
                   reached \cup {i \in DOMAIN parent : parent[i] \in reached},
                   fuel - 1)

\* the children list of node p: appended in list order, then sorted by start
\* when sort_rec reaches p
ChildrenOf(nodes, parent, p) ==
  LET appended == SelectSeq([k \in 1 .. Len(nodes) |-> k],
                            LAMBDA i : parent[i] = p)
      roots == {i \in 1 .. Len(nodes) : parent[i] = 0}
      order == SortOrder([k \in 1 .. Len(appended) |->
                            nodes[appended[k]].span.start_byte])
  IN  IF p \in ReachedFrom(parent, roots, Len(nodes))
      THEN [k \in 1 .. Len(appended) |-> appended[order[k]]]
      ELSE appended

\* nest_nodes that returns every node as a root
nest_nodes_unfiltered(nodes) ==
  LET parent == ParentIdx(nodes)
      order == SortOrder([k \in 1 .. Len(nodes) |-> nodes[k].span.start_byte])
  IN  [nodes |-> [i \in 1 .. Len(nodes) |->
                    [nodes[i] EXCEPT !.children = ChildrenOf(nodes, parent, i)]],
       parent |-> parent,
       roots |-> [k \in 1 .. Len(nodes) |-> order[k]]]

\* nest_nodes: the node list with the children lists set, and the positions
\* of the roots sorted by start
nest_nodes(nodes) ==
  LET parent == ParentIdx(nodes)
      rootIdx == SelectSeq([k \in 1 .. Len(nodes) |-> k],
                           LAMBDA i : parent[i] = 0)
      order == SortOrder([k \in 1 .. Len(rootIdx) |->
                            nodes[rootIdx[k]].span.start_byte])
  IN  [nodes |-> [i \in 1 .. Len(nodes) |->
                    [nodes[i] EXCEPT !.children = ChildrenOf(nodes, parent, i)]],
       parent |-> parent,
       roots |-> [k \in 1 .. Len(rootIdx) |-> rootIdx[order[k]]]]

\* ------------------------------------------------------------------------
\* Gap filler
\* ------------------------------------------------------------------------

\* GapNode that takes one character more than the gap
GapNodeInclusive(src, s, e, line_index) ==
  Node("other", None, make_span(s, e + 1, line_index), None, None, None,
       Slice(src, s, e + 1), <<>>)

GapNode(src, s, e, line_index) ==
  Node("other", None, make_span(s, e, line_index), None, None, None,
       Slice(src, s, e), <<>>)

\* GapsFrom without the node for the text behind the last root
RECURSIVE GapsFromNoTail(_, _, _, _, _)
GapsFromNoTail(src, line_index, roots, k, pos) ==
  IF k > Len(roots) THEN <<>>
  ELSE LET node == roots[k]
           gap == IF pos < node.span.start_byte
                  THEN <<GapNode(src, pos, node.span.start_byte, line_index)>>
                  ELSE <<>>
       IN  gap \o <<node>> \o
           GapsFromNoTail(src, line_index, roots, k + 1, node.span.end_byte)

\* GapsFrom that leaves out a root that starts before the end of the one
\* before it
RECURSIVE GapsFromSkipOverlap(_, _, _, _, _)
GapsFromSkipOverlap(src, line_index, roots, k, pos) ==
  IF k > Len(roots)
  THEN IF pos < Len(src) THEN <<GapNode(src, pos, Len(src), line_index)>>
       ELSE <<>>
  ELSE LET node == roots[k]
           gap == IF pos < node.span.start_byte
                  THEN <<GapNode(src, pos, node.span.start_byte, line_index)>>
                  ELSE <<>>
       IN  IF pos <= node.span.start_byte
           THEN gap \o <<node>> \o
                GapsFromSkipOverlap(src, line_index, roots, k + 1,
                                    node.span.end_byte)
           ELSE GapsFromSkipOverlap(src, line_index, roots, k + 1, pos)

\* the loop of add_gap_nodes from the k-th root on, at offset pos
RECURSIVE GapsFrom(_, _, _, _, _)
GapsFrom(src, line_index, roots, k, pos) ==
  IF k > Len(roots)
  THEN IF pos < Len(src) THEN <<GapNode(src, pos, Len(src), line_index)>>
       ELSE <<>>
  ELSE LET node == roots[k]
           gap == IF pos < node.span.start_byte
                  THEN <<GapNode(src, pos, node.span.start_byte, line_index)>>
                  ELSE <<>>
       IN  gap \o <<node>> \o
           GapsFrom(src, line_index, roots, k + 1, node.span.end_byte)

add_gap_nodes(src, line_index, roots) == GapsFrom(src, line_index, roots, 1, 0)

\* ------------------------------------------------------------------------
\* The files the builder is run on
\* ------------------------------------------------------------------------

\* pieces of text a generated file is a concatenation of
Pieces ==
  {<<"n","a","m","e","s","p","a","c","e"," ","n">>,
   <<"c","l","a","s","s"," ","A">>,
   <<"i","n","t"," ","f","(",")">>,
   <<"{">>,
   <<"}">>,
   <<"\n">>,
   <<" ">>,
   <<"#">>,
   <<"i","n","c","l","u","d","e"," ","x">>,
   <<"u","s","i","n","g"," ","u",";">>,
   <<"\"">>,
   <<"/","*">>,
   <<"\r">>,
   <<"C3","A9">>}

SrcStringBrace ==
  <<"i","n","t"," ","f","(",")"," ","{"," ","c","o","n","s","t"," ","c","h",
    "a","r","*"," ","s"," ","="," ","\"","}","\"",";"," ","r","e","t","u",
    "r","n"," ","0",";"," ","}">>

SrcCommentBrace ==
  <<"v","o","i","d"," ","g","(",")"," ","{"," ","/","*"," ","{"," ","*","/",
    " ","r","e","t","u","r","n",";"," ","}">>

SrcNestedClass ==
  <<"c","l","a","s","s"," ","C"," ","{"," ","v","o","i","d"," ","m","(",")",
    " ","{"," ","}"," ","}",";">>

SrcMacroInHeader ==
  <<"c","l","a","s","s"," ","A","\n","#","\n","{","}">>

SrcNestedMacro ==
  <<"n","a","m","e","s","p","a","c","e"," ","n"," ","{","\n","i","n","t",
    " ","f","(",")"," ","{","\n","#","x","\n","}","\n","}","\n">>

SrcTruncated ==
  <<"i","n","t"," ","f","(",")"," ","{"," ","x">>

SrcCrLf ==
  <<"#","i","n","c","l","u","d","e"," ","<","a",">","\r","\n","u","s","i",
    "n","g"," ","b"," ","="," ","c",";","\r","\n">>

SrcCharBrace ==
  <<"i","n","t"," ","f","(",")"," ","{"," ","c","h","a","r"," ","c"," ","=",
    " ","'","{","'",";"," ","/","/"," ","}","\n","}">>

SrcIncludeNamespace ==
  <<"#","i","n","c","l","u","d","e"," ","<","a",">","\n","n","a","m","e",
    "s","p","a","c","e"," ","n"," ","{","\n","i","n","t"," ","f","(",")",
    " ","{","\n","}","\n","}","\n">>

SrcGaps ==
  <<";","\n","u","s","i","n","g"," ","u",";","\n","\n","#","x","\n",";">>

SrcSiblings ==
  <<"n","a","m","e","s","p","a","c","e"," ","n"," ","{","\n","#","x","\n",
    "u","s","i","n","g"," ","u",";","\n","i","n","t"," ","f","(",")"," ",
    "{","\n","#","y","\n","u","s","i","n","g"," ","v",";","\n","}","\n","}",
    "\n","#","z","\n">>

Examples ==
  {SrcStringBrace, SrcCommentBrace, SrcNestedClass, SrcMacroInHeader,
   SrcNestedMacro, SrcTruncated, SrcCrLf, SrcCharBrace, SrcIncludeNamespace,
   SrcGaps, SrcSiblings}

\* every concatenation of at most MaxPieces pieces
Generated ==
  {Concat(ps) : ps \in UNION {[1 .. k -> Pieces] : k \in 0 .. MaxPieces}}

Files == Examples \cup Generated

\* ------------------------------------------------------------------------
\* build_lst_for_file, one action per step
\* ------------------------------------------------------------------------

VARIABLES
  raw,              \* the bytes of the file
  pc,               \* the position of build_lst_for_file
  src,              \* the text read from the file
  line_index,
  nodes,            \* flat_nodes; from nest_nodes on with children lists
  parent,           \* parent_idx of nest_nodes (0 is None)
  roots,            \* the positions in nodes of the roots nest_nodes returns
  roots_with_gaps,  \* the root list add_gap_nodes returns
  doc,              \* the LST the build returns
  err,              \* the exception the build ended with
  scan_pc,          \* the position of find_matching_brace
  scan_src,         \* src of find_matching_brace
  scan_open,        \* open_pos
  scan_i,           \* i
  scan_depth,       \* depth
  scan_q,           \* q
  scan_result,      \* the value returned (NotFound is None)
  scan_steps,       \* the iterations of the two loops so far
  verify_pc,        \* the position of main of verify.py
  argv,             \* the documents named by sys.argv[1:]
  p_idx,            \* the position in argv of the loop variable p
  ok_all,
  reports,          \* the verdicts verify has printed
  exit_status       \* the status of sys.exit (-1 while running)

scan_vars ==
  <<scan_pc, scan_src, scan_open, scan_i, scan_depth, scan_q, scan_result,
    scan_steps>>

verify_vars == <<verify_pc, argv, p_idx, ok_all, reports, exit_status>>

build_vars ==
  <<raw, pc, src, line_index, nodes, parent, roots, roots_with_gaps, doc, err>>

vars == <<build_vars, scan_vars, verify_vars>>

\* the scanner before it is called
ScanIdle ==
  /\ scan_pc = "idle"
  /\ scan_src = <<>>
  /\ scan_open = 0
  /\ scan_i = 0
  /\ scan_depth = 0
  /\ scan_q = ""
  /\ scan_result = NotFound
  /\ scan_steps = 0

\* the verifier before it is started
VerifyIdle ==
  /\ verify_pc = "idle"
  /\ argv = <<>>
  /\ p_idx = 0
  /\ ok_all = TRUE
  /\ reports = <<>>
  /\ exit_status = -1

\* the builder before it is called
BuildIdle ==
  /\ raw = <<>>
  /\ pc = "idle"
  /\ src = <<>>
  /\ line_index = <<>>
  /\ nodes = <<>>
  /\ parent = <<>>
  /\ roots = <<>>
  /\ roots_with_gaps = <<>>
  /\ doc = None
  /\ err = "none"

Init ==
  /\ raw \in Files
  /\ pc = "start"
  /\ src = <<>>
  /\ line_index = <<>>
  /\ nodes = <<>>
  /\ parent = <<>>
  /\ roots = <<>>
  /\ roots_with_gaps = <<>>
  /\ doc = None
  /\ err = "none"
  /\ ScanIdle
  /\ VerifyIdle

\* with open(path, 'r', encoding='utf-8') as f: src = f.read()
ReadFile ==
  /\ pc = "start"
  /\ src' = ReadText(raw)
  /\ pc' = "read"
  /\ UNCHANGED <<raw, line_index, nodes, parent, roots, roots_with_gaps, doc, err>>
  /\ UNCHANGED <<scan_vars, verify_vars>>

ComputeLinesIndex ==
  /\ pc = "read"
  /\ line_index' = compute_lines_index(src)
  /\ pc' = "indexed"
  /\ UNCHANGED <<raw, src, nodes, parent, roots, roots_with_gaps, doc, err>>
  /\ UNCHANGED <<scan_vars, verify_vars>>

CollectToplevel ==
  /\ pc = "indexed"
  /\ IF CollectRaises(src)
     THEN /\ err' = "IndexError"
          /\ pc' = "failed"
          /\ UNCHANGED nodes
     ELSE /\ nodes' = collect_toplevel(src, line_index)
          /\ pc' = "collected"
          /\ UNCHANGED err
  /\ UNCHANGED <<raw, src, line_index, parent, roots, roots_with_gaps, doc>>
  /\ UNCHANGED <<scan_vars, verify_vars>>

NestNodes ==
  /\ pc = "collected"
  /\ LET nested == nest_nodes(nodes)
     IN  /\ nodes' = nested.nodes
         /\ parent' = nested.parent
         /\ roots' = nested.roots
  /\ pc' = "nested"
  /\ UNCHANGED <<raw, src, line_index, roots_with_gaps, doc, err>>
  /\ UNCHANGED <<scan_vars, verify_vars>>

AddGapNodes ==
  /\ pc = "nested"
  /\ roots_with_gaps' =
       add_gap_nodes(src, line_index, [k \in 1 .. Len(roots) |-> nodes[roots[k]]])
  /\ pc' = "gapped"
  /\ UNCHANGED <<raw, src, line_index, nodes, parent, roots, doc, err>>
  /\ UNCHANGED <<scan_vars, verify_vars>>

\* h = hashlib.sha256(src.encode('utf-8')).hexdigest(); return LST(...)
Assemble ==
  /\ pc = "gapped"
  /\ doc' = Some([version |-> "0.1", file |-> "input.cpp",
                  source_hash |-> Sha256(EncodeUtf8(src)),
                  source_length |-> Len(src),
                  nodes |-> roots_with_gaps])
  /\ pc' = "done"
  /\ UNCHANGED <<raw, src, line_index, nodes, parent, roots, roots_with_gaps, err>>
  /\ UNCHANGED <<scan_vars, verify_vars>>

Next ==
  \/ ReadFile
  \/ ComputeLinesIndex
  \/ CollectToplevel
  \/ NestNodes
  \/ AddGapNodes
  \/ Assemble

Spec == Init /\ [][Next]_vars

\* ------------------------------------------------------------------------
\* find_matching_brace, step by step
\* ------------------------------------------------------------------------

ScanAlphabet == {"{", "}", "\"", "'", "\\", "/", "*", "\n", "a"}

\* longer texts: literals and comments between a pair of braces
ScanExamples ==
  {<<"{", "\"", "\\", "\"", "}", "\"", "}">>,
   <<"{", "\"", "\\", "\\", "\"", "}">>,
   <<"{", "'", "\\", "'", "}", "'", "}">>,
   <<"{", "\"", "'", "}", "\"", "}">>,
   <<"{", "/", "*", "\"", "}", "*", "/", "}">>,
   <<"{", "/", "/", "'", "}", "\n", "}">>,
   <<"{", "\"", "/", "*", "\"", "}", "*", "/">>,
   <<"{", "\"", "/", "/", "\"", "}", "\n">>,
   <<"{", "{", "/", "*", "/", "}", "*", "/", "}", "}">>,
   <<"{", "\"", "}", "\\">>}

ScanTexts ==
  ScanExamples \cup UNION {[1 .. k -> ScanAlphabet] : k \in 0 .. MaxScanLen}

\* find_matching_brace(src, open_pos) after depth = 0; i = open_pos; n = len(src)
InitScan ==
  /\ BuildIdle
  /\ VerifyIdle
  /\ scan_src \in ScanTexts
  /\ scan_open \in 0 .. Len(scan_src)
  /\ scan_pc = "outer"
  /\ scan_i = scan_open
  /\ scan_depth = 0
  /\ scan_q = ""
  /\ scan_result = NotFound
  /\ scan_steps = 0

\* the outer loop is entered: while i < n
ScanInLoop == scan_pc = "outer" /\ scan_i < Len(scan_src)

\* if ch == '/' and i+1 < n
ScanAtSlash ==
  At(scan_src, scan_i) = "/" /\ scan_i + 1 < Len(scan_src)

\* if ch == '"' or ch == '\'': q = ch; i += 1
ScanQuote ==
  /\ ScanInLoop
  /\ At(scan_src, scan_i) \in {"\"", "'"}
  /\ scan_q' = At(scan_src, scan_i)
  /\ scan_i' = scan_i + 1
  /\ scan_pc' = "inner"
  /\ UNCHANGED <<scan_src, scan_open, scan_depth, scan_result>>
  /\ scan_steps' = scan_steps + 1
  /\ UNCHANGED <<build_vars, verify_vars>>

\* if src[i] == '\\': i += 2; continue
ScanLiteralEscape ==
  /\ scan_pc = "inner"
  /\ scan_i < Len(scan_src)
  /\ At(scan_src, scan_i) = "\\"
  /\ scan_i' = scan_i + 2
  /\ UNCHANGED <<scan_pc, scan_src, scan_open, scan_depth, scan_q, scan_result>>
  /\ scan_steps' = scan_steps + 1
  /\ UNCHANGED <<build_vars, verify_vars>>

\* if src[i] == q: i += 1; break, and the continue of the outer loop
ScanLiteralClose ==
  /\ scan_pc = "inner"
  /\ scan_i < Len(scan_src)
  /\ At(scan_src, scan_i) # "\\"
  /\ At(scan_src, scan_i) = scan_q
  /\ scan_i' = scan_i + 1
  /\ scan_pc' = "outer"
  /\ UNCHANGED <<scan_src, scan_open, scan_depth, scan_q, scan_result>>
  /\ scan_steps' = scan_steps + 1
  /\ UNCHANGED <<build_vars, verify_vars>>

\* i += 1 at the end of the inner loop
ScanLiteralChar ==
  /\ scan_pc = "inner"
  /\ scan_i < Len(scan_src)
  /\ At(scan_src, scan_i) # "\\"
  /\ At(scan_src, scan_i) # scan_q
  /\ scan_i' = scan_i + 1
  /\ UNCHANGED <<scan_pc, scan_src, scan_open, scan_depth, scan_q, scan_result>>
  /\ scan_steps' = scan_steps + 1
  /\ UNCHANGED <<build_vars, verify_vars>>

\* the inner loop ends with i >= n, and the continue of the outer loop
ScanLiteralOpen ==
  /\ scan_pc = "inner"
  /\ ~(scan_i < Len(scan_src))
  /\ scan_pc' = "outer"
  /\ UNCHANGED <<scan_src, scan_open, scan_i, scan_depth, scan_q, scan_result>>
  /\ UNCHANGED scan_steps
  /\ UNCHANGED <<build_vars, verify_vars>>

\* ScanLineComment that sets i = j+1 without the test for j == -1
ScanLineCommentUnchecked ==
  /\ ScanInLoop
  /\ ScanAtSlash
  /\ At(scan_src, scan_i + 1) = "/"
  /\ scan_i' = Find(scan_src, "\n", scan_i + 2) + 1
  /\ UNCHANGED <<scan_pc, scan_src, scan_open, scan_depth, scan_q, scan_result>>
  /\ scan_steps' = scan_steps + 1
  /\ UNCHANGED <<build_vars, verify_vars>>

\* if src[i+1] == '/': j = src.find('\n', i+2); i = n if j == -1 else j+1
ScanLineComment ==
  /\ ScanInLoop
  /\ ScanAtSlash
  /\ At(scan_src, scan_i + 1) = "/"
  /\ LET j == Find(scan_src, "\n", scan_i + 2)
     IN  scan_i' = IF j = -1 THEN Len(scan_src) ELSE j + 1
  /\ UNCHANGED <<scan_pc, scan_src, scan_open, scan_depth, scan_q, scan_result>>
  /\ scan_steps' = scan_steps + 1
  /\ UNCHANGED <<build_vars, verify_vars>>

\* if src[i+1] == '*': j = src.find('*/', i+2); i = n if j == -1 else j+2
ScanBlockComment ==
  /\ ScanInLoop
  /\ ScanAtSlash
  /\ At(scan_src, scan_i + 1) = "*"
  /\ LET j == Find2(scan_src, "*", "/", scan_i + 2)
     IN  scan_i' = IF j = -1 THEN Len(scan_src) ELSE j + 2
  /\ UNCHANGED <<scan_pc, scan_src, scan_open, scan_depth, scan_q, scan_result>>
  /\ scan_steps' = scan_steps + 1
  /\ UNCHANGED <<build_vars, verify_vars>>

\* neither a quote nor the start of a comment is at the cursor
ScanPlain ==
  /\ ScanInLoop
  /\ At(scan_src, scan_i) \notin {"\"", "'"}
  /\ ~(ScanAtSlash /\ At(scan_src, scan_i + 1) \in {"/", "*"})

\* if ch == '{': depth += 1, then i += 1
ScanOpenBrace ==
  /\ ScanPlain
  /\ At(scan_src, scan_i) = "{"
  /\ scan_depth' = scan_depth + 1
  /\ scan_i' = scan_i + 1
  /\ UNCHANGED <<scan_pc, scan_src, scan_open, scan_q, scan_result>>
  /\ scan_steps' = scan_steps + 1
  /\ UNCHANGED <<build_vars, verify_vars>>

\* elif ch == '}': depth -= 1; if depth == 0: return i, else i += 1
ScanCloseBrace ==
  /\ ScanPlain
  /\ At(scan_src, scan_i) = "}"
  /\ scan_depth' = scan_depth - 1
  /\ IF scan_depth - 1 = 0
     THEN /\ scan_result' = scan_i
          /\ scan_pc' = "returned"
          /\ UNCHANGED scan_i
     ELSE /\ scan_i' = scan_i + 1
          /\ UNCHANGED <<scan_pc, scan_result>>
  /\ UNCHANGED <<scan_src, scan_open, scan_q>>
  /\ scan_steps' = scan_steps + 1
  /\ UNCHANGED <<build_vars, verify_vars>>

\* any other character: i += 1
ScanChar ==
  /\ ScanPlain
  /\ At(scan_src, scan_i) \notin {"{", "}"}
  /\ scan_i' = scan_i + 1
  /\ UNCHANGED <<scan_pc, scan_src, scan_open, scan_depth, scan_q, scan_result>>
  /\ scan_steps' = scan_steps + 1
  /\ UNCHANGED <<build_vars, verify_vars>>

\* the outer loop ends with i >= n: return None
ScanReturnNone ==
  /\ scan_pc = "outer"
  /\ ~(scan_i < Len(scan_src))
  /\ scan_result' = NotFound
  /\ scan_pc' = "returned"
  /\ UNCHANGED <<scan_src, scan_open, scan_i, scan_depth, scan_q>>
  /\ UNCHANGED scan_steps
  /\ UNCHANGED <<build_vars, verify_vars>>

NextScan ==
  \/ ScanQuote
  \/ ScanLiteralEscape
  \/ ScanLiteralClose
  \/ ScanLiteralChar
  \/ ScanLiteralOpen
  \/ ScanLineComment
  \/ ScanBlockComment
  \/ ScanOpenBrace
  \/ ScanCloseBrace
  \/ ScanChar
  \/ ScanReturnNone

SpecScan == InitScan /\ [][NextScan]_vars

\* the scanner runs on whenever it can take a step
SpecScanFair == SpecScan /\ WF_vars(NextScan)

\* ------------------------------------------------------------------------
\* verify.py
\* ------------------------------------------------------------------------

\* the root nodes build_lst_for_file writes for a file with these bytes
RootNodesOf(bytes) ==
  LET text == ReadText(bytes)
      index == compute_lines_index(text)
      nested == nest_nodes(collect_toplevel(text, index))
  IN  add_gap_nodes(text, index,
        [k \in 1 .. Len(nested.roots) |-> nested.nodes[nested.roots[k]]])

FileCrLf == <<"a", "\r", "\n", "b">>

FileLf == <<"a", "\n", "b">>

FileAccent == <<"C3", "A9">>

FileSpacedInclude == <<"#", " ", "i", "n", "c", "l", "u", "d", "e", " ", "x">>

FileClass == <<"c", "l", "a", "s", "s", " ", "A", "{", "}", "\n">>

VerifyFiles == {FileCrLf, FileLf, FileAccent, FileSpacedInclude, FileClass}

\* an LST document as verify reads it: file is the content the repository
\* holds under data['file'] (None: there is no such file), nodes is
\* data['nodes']
LstDocuments ==
  {[file |-> Some(g), nodes |-> RootNodesOf(f)] : f, g \in VerifyFiles}
    \cup {[file |-> None, nodes |-> RootNodesOf(f)] : f \in VerifyFiles}
    \cup {[file |-> Some(FileCrLf), nodes |-> <<[text |-> FileCrLf]>>]}

concat_text(ns) == Concat([k \in 1 .. Len(ns) |-> ns[k].text])

\* src = read_text(encoding='utf-8'); ok = src == rebuilt
verify(data) == ReadText(data.file[1]) = concat_text(data.nodes)

InitVerify ==
  /\ BuildIdle
  /\ ScanIdle
  /\ argv \in UNION {[1 .. k -> LstDocuments] : k \in 0 .. MaxDocs}
  /\ verify_pc = "main"
  /\ p_idx = 0
  /\ ok_all = TRUE
  /\ reports = <<>>
  /\ exit_status = -1

\* if len(sys.argv) < 2: sys.exit(2)
VerifyUsage ==
  /\ verify_pc = "main"
  /\ Len(argv) = 0
  /\ exit_status' = 2
  /\ verify_pc' = "exited"
  /\ UNCHANGED <<argv, p_idx, ok_all, reports>>
  /\ UNCHANGED <<build_vars, scan_vars>>

\* ok_all = True; for p in sys.argv[1:]
VerifyStart ==
  /\ verify_pc = "main"
  /\ ~(Len(argv) = 0)
  /\ ok_all' = TRUE
  /\ p_idx' = 1
  /\ verify_pc' = "loop"
  /\ UNCHANGED <<argv, reports, exit_status>>
  /\ UNCHANGED <<build_vars, scan_vars>>

\* ok_all &= verify(Path(p), root)
VerifyDocument ==
  /\ verify_pc = "loop"
  /\ p_idx <= Len(argv)
  /\ argv[p_idx].file # None
  /\ LET ok == verify(argv[p_idx])
     IN  /\ reports' = Append(reports, IF ok THEN "OK" ELSE "MISMATCH")
         /\ ok_all' = (ok_all /\ ok)
  /\ p_idx' = p_idx + 1
  /\ UNCHANGED <<verify_pc, argv, exit_status>>
  /\ UNCHANGED <<build_vars, scan_vars>>

\* read_text raises FileNotFoundError, which nothing catches: the
\* interpreter ends with status 1
VerifyFileMissing ==
  /\ verify_pc = "loop"
  /\ p_idx <= Len(argv)
  /\ argv[p_idx].file = None
  /\ exit_status' = 1
  /\ verify_pc' = "exited"
  /\ UNCHANGED <<argv, p_idx, ok_all, reports>>
  /\ UNCHANGED <<build_vars, scan_vars>>

\* sys.exit(0 if ok_all else 1)
VerifyExit ==
  /\ verify_pc = "loop"
  /\ p_idx > Len(argv)
  /\ exit_status' = IF ok_all THEN 0 ELSE 1
  /\ verify_pc' = "exited"
  /\ UNCHANGED <<argv, p_idx, ok_all, reports>>
  /\ UNCHANGED <<build_vars, scan_vars>>

NextVerify ==
  \/ VerifyUsage
  \/ VerifyStart
  \/ VerifyDocument
  \/ VerifyFileMissing
  \/ VerifyExit

SpecVerify == InitVerify /\ [][NextVerify]_vars

\* ------------------------------------------------------------------------
\* Properties
\* ------------------------------------------------------------------------

Built == pc = "done"

\* the document of a finished build
Doc == doc[1]

RootTexts == [k \in 1 .. Len(Doc.nodes) |-> Doc.nodes[k].text]

\* every node of the resulting tree: the extracted nodes and the gap nodes
TreeNodes ==
  {nodes[i] : i \in 1 .. Len(nodes)}
    \cup {Doc.nodes[k] : k \in 1 .. Len(Doc.nodes)}

\* the spans a node carries
SpansOf(n) == {n.span} \cup (IF n.header_span = None THEN {} ELSE {n.header_span[1]})
                \cup (IF n.body_span = None THEN {} ELSE {n.body_span[1]})

\* the positions of the brace-bearing nodes whose closing brace the scanner
\* does not find
Unmatched ==
  {i \in 1 .. Len(nodes) :
     /\ nodes[i].kind \in ContainerKinds
     /\ find_matching_brace(src, nodes[i].header_span[1].end_byte) = NotFound}

\* C1: the texts of the root nodes of a finished build, concatenated in list
\* order, are the source text
C1_RoundTrip == Built => Concat(RootTexts) = src

\* C2: the root list of a finished build is sorted by start_byte and tiles
\* [0, source_length): it starts at 0, each root starts where the previous
\* one ends, and the last root ends at source_length
C2_RootContiguity ==
  Built =>
    LET r == Doc.nodes
    IN  /\ \A k \in 1 .. Len(r) - 1 :
             /\ r[k].span.start_byte <= r[k + 1].span.start_byte
             /\ r[k].span.end_byte = r[k + 1].span.start_byte
        /\ r # <<>> => /\ r[1].span.start_byte = 0
                       /\ r[Len(r)].span.end_byte = Doc.source_length
        /\ r = <<>> => Doc.source_length = 0

\* C3: every span of every node of the tree satisfies
\* 0 <= start_byte <= end_byte <= source_length and start_line <= end_line
C3_SpanWellFormed ==
  Built =>
    \A n \in TreeNodes : \A sp \in SpansOf(n) :
      /\ 0 <= sp.start_byte
      /\ sp.start_byte <= sp.end_byte
      /\ sp.end_byte <= Doc.source_length
      /\ sp.start_line <= sp.end_line

\* C4: a namespace, class, struct or function whose closing brace the scanner
\* does not find is emitted as a header-only node, without body_span
C4_HeaderOnly == Built => \A i \in Unmatched : nodes[i].body_span = None

\* C5: every child B of a node A lies in the body of A: A has a body_span,
\* A.body_span.start_byte <= B.span.start_byte and
\* B.span.end_byte <= A.body_span.end_byte
C5_Containment ==
  pc \in {"nested", "gapped", "done"} =>
    \A a \in 1 .. Len(nodes) : \A k \in 1 .. Len(nodes[a].children) :
      LET b == nodes[a].children[k]
      IN  /\ nodes[a].body_span # None
          /\ nodes[a].body_span[1].start_byte <= nodes[b].span.start_byte
          /\ nodes[b].span.end_byte <= nodes[a].body_span[1].end_byte

\* a finished build whose tree has a child two levels below a root
C5_Witness ==
  /\ Built
  /\ \E a \in 1 .. Len(nodes) : \E k \in 1 .. Len(nodes[a].children) :
       nodes[nodes[a].children[k]].children # <<>>

C7_HashOfRawBytes == Built => Doc.source_hash = Sha256(raw)

\* the function nodes of the extracted list
FunctionNodes == {i \in 1 .. Len(nodes) : nodes[i].kind = "function"}

\* C9: the build of  int f() { const char* s = "}"; return 0; }  yields one
\* function node, a root named f, whose body_span ends behind the last
\* character of the source, the final closing brace
C9_StringBrace ==
  (Built /\ raw = SrcStringBrace) =>
    /\ Cardinality(FunctionNodes) = 1
    /\ \A i \in FunctionNodes :
         /\ nodes[i].name = Some(<<"f">>)
         /\ nodes[i].body_span # None
         /\ nodes[i].body_span[1].end_byte = Len(src)
         /\ At(src, Len(src) - 1) = "}"
         /\ \E k \in 1 .. Len(Doc.nodes) : Doc.nodes[k] = nodes[i]

C9_Witness == Built /\ raw = SrcStringBrace /\ FunctionNodes # {}

\* C10: in the build of  void g() { /* { */ return; }  the body_span of the
\* function node ends behind the last character of the source, the closing
\* brace; the brace in the comment is not counted
C10_CommentBrace ==
  (Built /\ raw = SrcCommentBrace) =>
    /\ FunctionNodes # {}
    /\ \A i \in FunctionNodes :
         /\ nodes[i].body_span # None
         /\ nodes[i].body_span[1].start_byte = Find(src, "{", 0)
         /\ nodes[i].body_span[1].end_byte = Len(src)
         /\ At(src, Len(src) - 1) = "}"

C10_Witness ==
  /\ Built
  /\ raw = SrcCommentBrace
  /\ \E i \in FunctionNodes : nodes[i].name = Some(<<"g">>)

\* the text part is a contiguous part of the text whole
IsPartOf(part, whole) ==
  \E a \in 0 .. Len(whole) - Len(part) : Slice(whole, a, a + Len(part)) = part

\* C11: the build of  class C { void m() { } };  yields a class root named C
\* with exactly one child, a function named m whose text is a contiguous part
\* of the text of C
C11_NestedClass ==
  (Built /\ raw = SrcNestedClass) =>
    \E k \in 1 .. Len(Doc.nodes) :
      LET c == Doc.nodes[k]
      IN  /\ c.kind = "class"
          /\ c.name = Some(<<"C">>)
          /\ Len(c.children) = 1
          /\ nodes[c.children[1]].kind = "function"
          /\ nodes[c.children[1]].name = Some(<<"m">>)
          /\ IsPartOf(nodes[c.children[1]].text, c.text)

\* C12: the source_length of a finished build is the number of bytes of the
\* file
C12_LengthInBytes == Built => Doc.source_length = Len(raw)

Nested == pc \in {"nested", "gapped", "done"}

\* the positions of the nodes that have node b in their children list
ParentsOf(b) ==
  {a \in 1 .. Len(nodes) : \E k \in 1 .. Len(nodes[a].children) :
     nodes[a].children[k] = b}

\* the positions of the roots
RootSet == {roots[k] : k \in 1 .. Len(roots)}

\* the containers of node b: the other nodes of kind namespace, class, struct
\* or function whose body_span contains the span of b
ContainersOf(b) ==
  {c \in 1 .. Len(nodes) :
     /\ c # b
     /\ nodes[c].kind \in {"namespace", "class", "struct", "function"}
     /\ nodes[c].body_span # None
     /\ nodes[c].body_span[1].start_byte <= nodes[b].span.start_byte
     /\ nodes[b].span.end_byte <= nodes[c].body_span[1].end_byte}

BodyWidth(c) ==
  nodes[c].body_span[1].end_byte - nodes[c].body_span[1].start_byte

\* C16: the parent of a node is one of its containers, no container of the
\* node has a strictly smaller body_span width, and a node is a root exactly
\* when it has no container
C16_TightestContainer ==
  Nested =>
    \A b \in 1 .. Len(nodes) :
      /\ \A a \in ParentsOf(b) :
           /\ a \in ContainersOf(b)
           /\ \A c \in ContainersOf(b) : BodyWidth(a) <= BodyWidth(c)
      /\ b \in RootSet <=> ContainersOf(b) = {}
      /\ b \notin RootSet => ParentsOf(b) # {}

\* a node with two containers of different widths
C16_Witness ==
  /\ Built
  /\ \E b \in 1 .. Len(nodes) : \E c, d \in ContainersOf(b) :
       BodyWidth(c) < BodyWidth(d)

\* C17: the span of a node whose closing brace is not found is the extent of
\* its header: it starts at the start of the node and ends at the opening
\* brace
C17_DegradedSpan ==
  Built =>
    \A i \in Unmatched :
      /\ nodes[i].span.start_byte = nodes[i].header_span[1].start_byte
      /\ nodes[i].span.end_byte = nodes[i].header_span[1].end_byte

\* the roots handed to add_gap_nodes
InputRoots == [k \in 1 .. Len(roots) |-> nodes[roots[k]]]

\* the input roots are sorted by start_byte, pairwise non-overlapping and lie
\* within [0, source_length]
WellFormedRoots ==
  /\ \A k \in 1 .. Len(InputRoots) :
       /\ 0 <= InputRoots[k].span.start_byte
       /\ InputRoots[k].span.start_byte <= InputRoots[k].span.end_byte
       /\ InputRoots[k].span.end_byte <= Len(src)
  /\ \A k \in 1 .. Len(InputRoots) - 1 :
       InputRoots[k].span.end_byte <= InputRoots[k + 1].span.start_byte

\* C18: on well-formed roots the list add_gap_nodes returns tiles
\* [0, source_length), its concatenated text is the source, every node it
\* adds is a non-empty other node, and no two added nodes are adjacent
C18_GapFiller ==
  (pc \in {"gapped", "done"} /\ WellFormedRoots) =>
    LET r == roots_with_gaps
    IN  /\ \A k \in 1 .. Len(r) - 1 :
             r[k].span.end_byte = r[k + 1].span.start_byte
        /\ r # <<>> => /\ r[1].span.start_byte = 0
                       /\ r[Len(r)].span.end_byte = Len(src)
        /\ r = <<>> => Len(src) = 0
        /\ Concat([k \in 1 .. Len(r) |-> r[k].text]) = src
        /\ \A k \in 1 .. Len(r) :
             r[k].kind = "other" =>
               /\ r[k].span.start_byte < r[k].span.end_byte
               /\ r[k].text # <<>>
               /\ k < Len(r) => r[k + 1].kind # "other"
        /\ Len(r) - Len(InputRoots)
             = Cardinality({k \in 1 .. Len(r) : r[k].kind = "other"})

\* well-formed roots with a gap between two roots and text behind the last
C18_Witness ==
  /\ Built
  /\ WellFormedRoots
  /\ \E k \in 2 .. Len(roots_with_gaps) - 1 : roots_with_gaps[k].kind = "other"
  /\ roots_with_gaps[Len(roots_with_gaps)].kind = "other"

\* how often position i occurs in the sequence of positions seq
Occurrences(seq, i) == Cardinality({k \in 1 .. Len(seq) : seq[k] = i})

\* how often node i occurs in the forest: in the root list and in the
\* children lists
RECURSIVE OccurrencesInChildren(_, _)
OccurrencesInChildren(i, a) ==
  IF a = 0 THEN 0
  ELSE Occurrences(nodes[a].children, i) + OccurrencesInChildren(i, a - 1)

\* the positions in the children list of node a
Kids(a) == {nodes[a].children[k] : k \in 1 .. Len(nodes[a].children)}

\* the positions reached from the positions in reached by following
\* children lists at most fuel times
RECURSIVE Descendants(_, _)
Descendants(reached, fuel) ==
  IF fuel = 0 THEN reached
  ELSE Descendants(reached \cup UNION {Kids(a) : a \in reached}, fuel - 1)

\* C19: every extracted node occurs exactly once in the forest, as a root or
\* in one children list; no node is below itself, a child's span is strictly
\* narrower than its parent's, and every node is reached from a root
C19_ForestPartition ==
  Nested =>
    \A i \in 1 .. Len(nodes) :
      /\ Occurrences(roots, i) + OccurrencesInChildren(i, Len(nodes)) = 1
      /\ i \notin Descendants(Kids(i), Len(nodes))
      /\ i \in Descendants(RootSet, Len(nodes))
      /\ \A b \in Kids(i) : Width(nodes[b].span) < Width(nodes[i].span)

\* a forest with a root that has children and a root that has none
C19_Witness ==
  /\ Built
  /\ \E a, b \in RootSet : Kids(a) # {} /\ Kids(b) = {}

\* C20: the text of every node is the source from span.start_byte up to
\* span.end_byte, so it is end_byte - start_byte characters long; the header
\* of a node that has one is the source slice of its header_span
C20_TextIsSlice ==
  Built =>
    \A n \in TreeNodes :
      /\ n.text = Slice(src, n.span.start_byte, n.span.end_byte)
      /\ Len(n.text) = n.span.end_byte - n.span.start_byte
      /\ n.header # None =>
           /\ n.header_span # None
           /\ n.header[1] = Slice(src, n.header_span[1].start_byte,
                                  n.header_span[1].end_byte)

\* ------------------------------------------------------------------------
\* The round-trip verifier
\* ------------------------------------------------------------------------

\* the texts of the nodes, put together and encoded, are the bytes of the
\* file the document names
ByteEqual(data) ==
  /\ data.file # None
  /\ EncodeUtf8(concat_text(data.nodes)) = data.file[1]

VerifierDone == verify_pc = "exited"

\* C13: verify reports OK for a document exactly when the concatenation of
\* the text of its root nodes equals the content of the file it names; the
\* run checks every document given to it and ends with status 0 exactly when
\* all of them are OK, with status 1 otherwise, and with status 2 when it is
\* given no document.
C13_Verifier ==
  /\ \A k \in 1 .. Len(reports) : reports[k] = "OK" <=> ByteEqual(argv[k])
  /\ VerifierDone =>
       /\ Len(reports) = Len(argv)
       /\ exit_status =
            IF argv = <<>> THEN 2
            ELSE IF \A k \in 1 .. Len(reports) : reports[k] = "OK" THEN 0
            ELSE 1

\* ------------------------------------------------------------------------
\* The brace scanner
\* ------------------------------------------------------------------------

\* the five-state machine, read one character at a time from offset i:
\* the offset of the closing brace read in Normal state at which the depth
\* is back at zero, or NotFound at the end of the input
RECURSIVE Machine(_, _, _, _)
Machine(text, i, state, depth) ==
  LET ch == At(text, i)
      two == <<At(text, i), At(text, i + 1)>>
  IN  IF i >= Len(text) THEN NotFound
      ELSE IF state = "InString"
           THEN IF ch = "\\" THEN Machine(text, i + 2, state, depth)
                ELSE IF ch = "\"" THEN Machine(text, i + 1, "Normal", depth)
                ELSE Machine(text, i + 1, state, depth)
      ELSE IF state = "InChar"
           THEN IF ch = "\\" THEN Machine(text, i + 2, state, depth)
                ELSE IF ch = "'" THEN Machine(text, i + 1, "Normal", depth)
                ELSE Machine(text, i + 1, state, depth)
      ELSE IF state = "InLineComment"
           THEN Machine(text, i + 1, IF ch = "\n" THEN "Normal" ELSE state, depth)
      ELSE IF state = "InBlockComment"
           THEN IF two = <<"*", "/">> THEN Machine(text, i + 2, "Normal", depth)
                ELSE Machine(text, i + 1, state, depth)
      ELSE IF ch = "\"" THEN Machine(text, i + 1, "InString", depth)
      ELSE IF ch = "'" THEN Machine(text, i + 1, "InChar", depth)
      ELSE IF two = <<"/", "/">> THEN Machine(text, i + 2, "InLineComment", depth)
      ELSE IF two = <<"/", "*">> THEN Machine(text, i + 2, "InBlockComment", depth)
      ELSE IF ch = "{" THEN Machine(text, i + 1, state, depth + 1)
      ELSE IF ch = "}"
           THEN IF depth = 1 THEN i ELSE Machine(text, i + 1, state, depth - 1)
      ELSE Machine(text, i + 1, state, depth)

ScanReturned == scan_pc = "returned"

OnOpenBrace == At(scan_src, scan_open) = "{"

\* C14: started on an opening brace, find_matching_brace returns what the
\* five-state machine returns from there in Normal state with depth zero: the
\* first closing brace read in Normal state that brings the depth back to
\* zero, and not-found exactly when the end of the input comes first.
C14_RefinesMachine ==
  (ScanReturned /\ OnOpenBrace) =>
    /\ scan_result = Machine(scan_src, scan_open, "Normal", 0)
    /\ scan_result = find_matching_brace(scan_src, scan_open)

\* a brace is found although a closing brace inside a comment that holds a
\* quote, or inside a literal that holds a comment marker, came before it
C14_Witness ==
  /\ ScanReturned
  /\ OnOpenBrace
  /\ scan_result # NotFound
  /\ \E k \in scan_open + 1 .. scan_result - 1 :
       /\ At(scan_src, k) = "}"
       /\ \/ <<At(scan_src, k - 3), At(scan_src, k - 2), At(scan_src, k - 1)>>
               = <<"/", "*", "\"">>
          \/ <<At(scan_src, k - 3), At(scan_src, k - 2), At(scan_src, k - 1)>>
               = <<"\"", "/", "*">>

\* the backslashes right before offset p, counted back to offset lo
RECURSIVE BackslashesBefore(_, _, _)
BackslashesBefore(text, lo, p) ==
  IF p > lo /\ At(text, p - 1) = "\\"
  THEN 1 + BackslashesBefore(text, lo, p - 1)
  ELSE 0

\* the character at p is consumed by a backslash of the literal that starts
\* at lo
Escaped(text, lo, p) == BackslashesBefore(text, lo, p) % 2 = 1

\* the unescaped occurrences of the quote q in the literal that starts at lo
Closers(text, lo, q) ==
  {p \in lo .. Len(text) - 1 : At(text, p) = q /\ ~Escaped(text, lo, p)}

\* the scanner is about to enter a literal
AtQuote == scan_pc = "outer" /\ At(scan_src, scan_i) \in {"\"", "'"}

\* C15: a literal ends right after the first unescaped occurrence of the
\* quote that opened it, a character being escaped when a backslash of the
\* literal consumes it; without such an occurrence it runs to the end of the
\* input. Neither an escaped quote nor the other quote ends it.
C15_EscapeRule ==
  AtQuote =>
    LET q == At(scan_src, scan_i)
        lo == scan_i + 1
        end == SkipLiteral(scan_src, lo, q)
        closers == Closers(scan_src, lo, q)
    IN  IF closers = {}
        THEN end >= Len(scan_src)
        ELSE /\ end = Min(closers) + 1
             /\ \A p \in lo .. end - 2 :
                  At(scan_src, p) = q => At(scan_src, p - 1) = "\\"

\* a literal that holds an escaped quote and is closed after it
C15_Witness ==
  /\ AtQuote
  /\ \E p \in scan_i + 1 .. Len(scan_src) - 1 :
       /\ At(scan_src, p) = At(scan_src, scan_i)
       /\ At(scan_src, p - 1) = "\\"
       /\ SkipLiteral(scan_src, scan_i + 1, At(scan_src, scan_i)) > p + 1
       /\ SkipLiteral(scan_src, scan_i + 1, At(scan_src, scan_i)) <= Len(scan_src)

\* ------------------------------------------------------------------------
\* Geometry of the extracted nodes
\* ------------------------------------------------------------------------

\* C21: header_span and body_span are present only on namespace, class,
\* struct and function nodes; header_span runs from the start of the node to
\* the opening brace, body_span from that brace, where the source holds `{`,
\* to just after the matching closing brace, its last character being `}`,
\* and body_span ends where the span ends.
C21_Geometry ==
  Built =>
    \A n \in TreeNodes :
      /\ (n.header_span # None \/ n.body_span # None) =>
           /\ n.kind \in ContainerKinds
           /\ n.header_span # None
           /\ n.body_span # None
      /\ (n.header_span # None /\ n.body_span # None) =>
           LET h == n.header_span[1]
               b == n.body_span[1]
           IN  /\ h.start_byte = n.span.start_byte
               /\ h.end_byte = b.start_byte
               /\ At(src, b.start_byte) = "{"
               /\ b.end_byte = find_matching_brace(src, b.start_byte) + 1
               /\ At(src, b.end_byte - 1) = "}"
               /\ b.end_byte = n.span.end_byte

\* the lines a node covers
LinesOf(n) == n.span.start_line .. n.span.end_line

\* C23: no source line yields both an include node and a macro node: a macro
\* node is produced only for a `#` line that is not an include directive.
C23_MacroNotInclude ==
  Built =>
    \A a, b \in TreeNodes :
      (a.kind = "include" /\ b.kind = "macro") => LinesOf(a) \cap LinesOf(b) = {}

\* C27: an include node starts at the start of a line and ends at the
\* newline of that line or at the end of the input: it covers neither a
\* preceding nor a following line.
C27_IncludeOneLine ==
  Built =>
    \A n \in TreeNodes :
      n.kind = "include" =>
        /\ n.span.start_byte = 0 \/ At(src, n.span.start_byte - 1) = "\n"
        /\ n.span.end_byte = LineEnd(src, n.span.start_byte)

\* the newlines of the text before offset p
NewlinesBefore(text, p) ==
  Cardinality({k \in 0 .. p - 1 : At(text, k) = "\n"})

\* the 1-based number of the line that holds offset p
LineHolding(text, p) == 1 + NewlinesBefore(text, p)

\* C28: for every node with a non-empty span, start_line is the line that
\* holds its first character and end_line the line that holds its last
\* character, the one at offset end_byte - 1.
C28_InclusiveEndLine ==
  Built =>
    \A n \in TreeNodes :
      n.span.start_byte < n.span.end_byte =>
        /\ n.span.start_line = LineHolding(src, n.span.start_byte)
        /\ n.span.end_line = LineHolding(src, n.span.end_byte - 1)

\* ------------------------------------------------------------------------
\* The order of the extraction passes
\* ------------------------------------------------------------------------

\* the node lists of the six passes, in the order of the code
PassLists(text, index) ==
  <<IncludePass(text, index), NamespacePass(text, index),
    ClassPass(text, index), FunctionPass(text, index),
    UsingPass(text, index), MacroPass(text, index)>>

\* the orders the six passes can run in
PassOrders == Permutations(1 .. 6)

\* collect_toplevel with the passes run in the given order: the lists are
\* appended in that order and then sorted by start
CollectInOrder(lists, order) ==
  SortByStart(Concat([k \in 1 .. Len(order) |-> lists[order[k]]]))

\* the tree built from a flat list: the nested nodes and the roots with gaps
TreeOf(text, index, flat) ==
  LET nested == nest_nodes(flat)
  IN  [nodes |-> nested.nodes,
       roots |-> add_gap_nodes(text, index,
                   [k \in 1 .. Len(nested.roots) |-> nested.nodes[nested.roots[k]]])]

\* C22: the passes may run in any order: every permutation of the passes
\* yields the flat node list the code's order yields and, after nesting and
\* gap filling, the same tree.
C22_PassOrder ==
  Built =>
    LET lists == PassLists(src, line_index)
        flat == CollectInOrder(lists, <<1, 2, 3, 4, 5, 6>>)
    IN  /\ TreeOf(src, line_index, flat) = [nodes |-> nodes, roots |-> roots_with_gaps]
        /\ \A order \in PassOrders :
             /\ CollectInOrder(lists, order) = flat
             /\ TreeOf(src, line_index, CollectInOrder(lists, order))
                  = [nodes |-> nodes, roots |-> roots_with_gaps]

\* ------------------------------------------------------------------------
\* The line index
\* ------------------------------------------------------------------------

Indexed == pc \in {"indexed", "collected", "nested", "gapped", "done", "failed"}

\* the offsets just after the newlines of the text
AfterNewlines(text) ==
  {p + 1 : p \in {k \in 0 .. Len(text) - 1 : At(text, k) = "\n"}}

\* the line starts of the index that are at or before offset p
StartsUpTo(index, p) == {k \in 1 .. Len(index) : index[k] <= p}

\* C24: the line index is strictly increasing, starts with 0 and has one
\* further entry, the offset just after it, for each newline; for every
\* offset p of [0, source_length], byte_to_line(p) is the number of line
\* starts <= p, which is 1 plus the number of newlines before p, and it does
\* not decrease with p.
C24_LineIndex ==
  Indexed =>
    /\ line_index[1] = 0
    /\ \A k \in 1 .. Len(line_index) - 1 : line_index[k] < line_index[k + 1]
    /\ {line_index[k] : k \in 2 .. Len(line_index)} = AfterNewlines(src)
    /\ \A p \in 0 .. Len(src) :
         /\ byte_to_line(p, line_index) = Cardinality(StartsUpTo(line_index, p))
         /\ byte_to_line(p, line_index) = 1 + NewlinesBefore(src, p)
    /\ \A p \in 0 .. Len(src) - 1 :
         byte_to_line(p, line_index) <= byte_to_line(p + 1, line_index)

\* a text of three lines, the last one not ended by a newline
C24_Witness ==
  /\ Indexed
  /\ Len(line_index) = 3
  /\ line_index[3] < Len(src)
  /\ line_index[2] + 1 < line_index[3]
  /\ byte_to_line(Len(src), line_index) = 3

\* ------------------------------------------------------------------------
\* The nodes of the gap filler
\* ------------------------------------------------------------------------

Gapped == pc \in {"gapped", "done"}

\* the positions of the nodes the gap filler has inserted
GapPositions ==
  {k \in 1 .. Len(roots_with_gaps) : roots_with_gaps[k].kind = "other"}

\* C25: a node the gap filler inserts has kind other and neither name,
\* header_span, body_span, header nor children; its span runs from the end of
\* the root before it, or 0, to the start of the root after it, or to
\* source_length behind the last root, and its text is that slice of the
\* source.
C25_GapNodes ==
  Gapped =>
    /\ Len(roots_with_gaps) - Cardinality(GapPositions) = Len(InputRoots)
    /\ \A k \in GapPositions :
         LET g == roots_with_gaps[k]
             from == IF k = 1 THEN 0 ELSE roots_with_gaps[k - 1].span.end_byte
             to == IF k = Len(roots_with_gaps) THEN Len(src)
                   ELSE roots_with_gaps[k + 1].span.start_byte
         IN  /\ g.name = None
             /\ g.header_span = None
             /\ g.body_span = None
             /\ g.header = None
             /\ g.children = <<>>
             /\ g.span.start_byte = from
             /\ g.span.end_byte = to
             /\ g.text = Slice(src, from, to)
             /\ Len(g.text) = to - from
             /\ k > 1 => roots_with_gaps[k - 1].kind # "other"

\* a gap before the first root, a gap between two roots and a gap behind
\* the last root
C25_Witness ==
  /\ Built
  /\ 1 \in GapPositions
  /\ Len(roots_with_gaps) \in GapPositions
  /\ \E k \in GapPositions : 1 < k /\ k < Len(roots_with_gaps)

\* the roots of the result that the gap filler did not insert
KeptRoots == SelectSeq(roots_with_gaps, LAMBDA n : n.kind # "other")

\* two input roots overlap
RootsOverlap ==
  \E j, k \in 1 .. Len(InputRoots) :
    j < k /\ InputRoots[k].span.start_byte < InputRoots[j].span.end_byte

\* C30: the result of add_gap_nodes holds every input root, unchanged and in
\* the same order; what it holds besides are the other nodes it inserted,
\* also when input roots overlap.
C30_GapFrame ==
  Gapped =>
    /\ KeptRoots = InputRoots
    /\ \A k \in 1 .. Len(InputRoots) : InputRoots[k].kind # "other"

\* overlapping input roots, and a gap besides
C30_Witness ==
  /\ Built
  /\ RootsOverlap
  /\ GapPositions # {}
  /\ Len(InputRoots) >= 2

\* ------------------------------------------------------------------------
\* The order of children and roots
\* ------------------------------------------------------------------------

\* the start offsets of the nodes at the given positions are ascending
AscendingStarts(positions) ==
  \A k \in 1 .. Len(positions) - 1 :
    nodes[positions[k]].span.start_byte <= nodes[positions[k + 1]].span.start_byte

\* C26: the children list of every node, at every depth, and the root list
\* the nester returns are sorted by ascending span.start_byte.
C26_Ordering ==
  Nested =>
    /\ AscendingStarts(roots)
    /\ \A i \in 1 .. Len(nodes) : AscendingStarts(nodes[i].children)

\* two roots, the first with three children, one of which has two children
C26_Witness ==
  /\ Built
  /\ Len(roots) >= 2
  /\ \E i \in Kids(roots[1]) :
       /\ Len(nodes[roots[1]].children) >= 3
       /\ Len(nodes[i].children) >= 2

\* ------------------------------------------------------------------------
\* Termination of the brace scanner
\* ------------------------------------------------------------------------

\* an iteration of the outer or of the inner loop that does not return
ScanIteration == scan_steps' = scan_steps + 1 /\ scan_pc' # "returned"

\* the characters from the start offset on
CharsFromStart == Max({Len(scan_src) - scan_open, 0})

\* C29: find_matching_brace terminates for every text and every start
\* offset: the cursor strictly increases with every iteration of the outer
\* and of the inner loop, and there are at most as many iterations as there
\* are characters from the start offset on.
C29_Termination ==
  /\ [][ScanIteration => scan_i' > scan_i]_vars
  /\ [](scan_steps <= CharsFromStart)
  /\ <>ScanReturned

\* a scan that has returned after as many iterations as there are characters,
\* some of them in the inner loop
C29_Witness ==
  /\ ScanReturned
  /\ scan_q # ""
  /\ scan_open = 0
  /\ scan_steps = Len(scan_src)
  /\ Len(scan_src) >= 3

====
